---- MODULE Spec2Model ----
(***************************************************************************)
(* Model of the llm-quick-scroll content script (src/content.js, second    *)
(* script, lines 885-2181) and of its provider registry                    *)
(* (src/unnamed/part_000).                                                 *)
(*                                                                         *)
(* Texts are sequences of one-character strings so that trim() is a real   *)
(* computation.  Time is counted in milliseconds and advances in steps of  *)
(* TickStep; a timer holds its remaining delay, and time cannot pass a     *)
(* timer that is due.                                                      *)
(***************************************************************************)
EXTENDS Integers, Sequences, FiniteSets, TLC

\* ------------------------------------------------------------------ bounds
MaxIds == 2        \* identity tokens the script may generate in a run

\* ------------------------------------------------------- program constants
OBSERVER_DEBOUNCE_TIME == 1000
REFRESH_DELAY          == 500
SUBMIT_DELAY           == 200
URL_CHECK_DELAY        == 100
VISIBILITY_DELAY       == 500
BLUR_DELAY             == 300
INIT_DELAY             == 2000

\* --------------------------------------------------------------- texts
NoNode == <<"NoNode">>      \* querySelector(...) found nothing
NoId   == 0                 \* element.id === ''
Throws == <<"Throws">>      \* reading the element's text raises an exception

Texts == { <<>>, <<" ">>, <<"a">>, <<"a", " ">>, <<"b">> }

RECURSIVE TrimLeft(_)
TrimLeft(t) ==
    IF t = <<>> THEN <<>>
    ELSE IF Head(t) = " " THEN TrimLeft(Tail(t)) ELSE t

RECURSIVE TrimRight(_)
TrimRight(t) ==
    IF t = <<>> THEN <<>>
    ELSE IF t[Len(t)] = " " THEN TrimRight(SubSeq(t, 1, Len(t) - 1)) ELSE t

\* String.prototype.trim
Trim(t) == TrimRight(TrimLeft(t))

\* The shapes a turn element can take: its own innerText and the innerText
\* of the provider's queryText container inside it, when there is one.
Shapes ==
    { [inner |-> t, sub |-> NoNode] : t \in Texts }
      \cup { [inner |-> <<"b">>, sub |-> <<"a">>] }

\* GeminiProvider/ChatGPTProvider.extractTextContent: the text container's
\* innerText when the container exists, else the element's innerText.
extractTextContent(el) == IF el.sub # NoNode THEN el.sub ELSE el.inner

\* ------------------------------------------------------------ the tree
\* document.getElementById over the located turn elements: the first
\* element carrying the id, or NoNode.
RECURSIVE IndexOfId(_, _, _)
IndexOfId(d, id, i) ==
    IF i > Len(d) THEN 0
    ELSE IF d[i].id = id THEN i ELSE IndexOfId(d, id, i + 1)

getElementById(d, id) == IF id = NoId THEN 0 ELSE IndexOfId(d, id, 1)

\* First located element whose extracted text, trimmed, equals txt (the
\* for..of scans of validateSessionQueries and rebuildNavigationFromSession).
RECURSIVE IndexOfText(_, _, _)
IndexOfText(d, txt, i) ==
    IF i > Len(d) THEN 0
    ELSE IF /\ extractTextContent(d[i]) # Throws
            /\ extractTextContent(d[i]) # <<>>
            /\ Trim(extractTextContent(d[i])) = Trim(txt)
         THEN i
         ELSE IndexOfText(d, txt, i + 1)

\* ------------------------------------------------------ session store
\* sessionQueries.findIndex(q => q.id === queryData.id || q.text === queryData.text)
findIndex(sq, queryData) ==
    IF \E k \in 1..Len(sq) : sq[k].id = queryData.id \/ sq[k].text = queryData.text
    THEN CHOOSE k \in 1..Len(sq) :
            /\ sq[k].id = queryData.id \/ sq[k].text = queryData.text
            /\ \A j \in 1..(k - 1) :
                  ~(sq[j].id = queryData.id \/ sq[j].text = queryData.text)
    ELSE -1

\* addQueryToSession comparing ids only.
addQueryToSession_IdOnly(sq, queryData) ==
    IF \E k \in 1..Len(sq) : sq[k].id = queryData.id
    THEN sq ELSE Append(sq, queryData)

\* addQueryToSession putting the new record in front (unshift for push).
addQueryToSession_Unshift(sq, queryData) ==
    IF findIndex(sq, queryData) = -1 THEN <<queryData>> \o sq ELSE sq

addQueryToSession(sq, queryData) ==
    IF findIndex(sq, queryData) = -1 THEN Append(sq, queryData) ELSE sq

\* The forEach of processChatElements over the located elements, from
\* element i on.  st = [dom, sq, nextId].
RECURSIVE IngestFrom(_, _)
IngestFrom(st, i) ==
    IF i > Len(st.dom) THEN st
    ELSE
      LET el          == st.dom[i]
          textContent == extractTextContent(el)
      IN  IF /\ textContent # Throws
             /\ textContent # <<>>
             /\ Trim(textContent) # <<>>
          THEN
            LET fresh     == el.id = NoId
                queryId   == IF fresh THEN st.nextId + 1 ELSE el.id
                queryData == [id        |-> queryId,
                              text      |-> Trim(textContent),
                              elementId |-> queryId,
                              index     |-> Len(st.sq)]
            IN  IngestFrom(
                  [dom    |-> [st.dom EXCEPT ![i].id = queryId],
                   sq     |-> addQueryToSession(st.sq, queryData),
                   nextId |-> IF fresh THEN st.nextId + 1 ELSE st.nextId],
                  i + 1)
          ELSE IngestFrom(st, i + 1)

\* The forEach without its try/catch: the exception of the first element
\* whose text cannot be read ends the loop.
Ingest_NoCatch(d, sq, nid) ==
    LET thrown == { k \in 1..Len(d) : extractTextContent(d[k]) = Throws }
        stop   == IF thrown = {} THEN Len(d) + 1
                  ELSE CHOOSE k \in thrown : \A j \in thrown : k <= j
        r      == IngestFrom([dom |-> SubSeq(d, 1, stop - 1), sq |-> sq,
                              nextId |-> nid], 1)
    IN  [r EXCEPT !.dom = @ \o SubSeq(d, stop, Len(d))]

Ingest(d, sq, nid) == IngestFrom([dom |-> d, sq |-> sq, nextId |-> nid], 1)

\* Revalidation of one record without the update of its element id.
ValidateOne_NoRebind(d, q) ==
    LET byId   == getElementById(d, q.elementId)
        idOk   == /\ byId # 0
                  /\ extractTextContent(d[byId]) # Throws
                  /\ extractTextContent(d[byId]) # <<>>
                  /\ Trim(extractTextContent(d[byId])) = Trim(q.text)
        byText == IndexOfText(d, q.text, 1)
    IN  [valid |-> idOk \/ byText # 0, q |-> q]

\* validateSessionQueries, one record: the record as revalidation leaves it
\* and whether it is valid.
ValidateOne(d, q) ==
    LET byId   == getElementById(d, q.elementId)
        idOk   == /\ byId # 0
                  /\ extractTextContent(d[byId]) # Throws
                  /\ extractTextContent(d[byId]) # <<>>
                  /\ Trim(extractTextContent(d[byId])) = Trim(q.text)
        byText == IndexOfText(d, q.text, 1)
    IN  IF idOk THEN [valid |-> TRUE, q |-> q]
        ELSE IF byText # 0
             THEN [valid |-> TRUE,
                   q |-> IF d[byText].id # NoId /\ d[byText].id # q.elementId
                         THEN [q EXCEPT !.elementId = d[byText].id]
                         ELSE q]
             ELSE [valid |-> FALSE, q |-> q]

RECURSIVE ValidFrom(_, _, _)
ValidFrom(d, sq, i) ==
    IF i > Len(sq) THEN <<>>
    ELSE LET r == ValidateOne(d, sq[i])
         IN  (IF r.valid THEN <<r.q>> ELSE <<>>) \o ValidFrom(d, sq, i + 1)

validateSessionQueries(d, sq) ==
    LET validQueries == ValidFrom(d, sq, 1)
    IN  IF Len(validQueries) < Len(sq)
        THEN [k \in 1..Len(validQueries) |->
                 [validQueries[k] EXCEPT !.index = k - 1]]
        ELSE validQueries

\* ------------------------------------------------------ string helpers
IsSpace(c) == c = " "

\* text.split(/\s+/) of a trimmed text: its maximal runs of non-space
\* characters; one empty word for the empty text.
RECURSIVE SplitWords(_, _, _)
SplitWords(t, cur, acc) ==
    IF t = <<>> THEN Append(acc, cur)
    ELSE IF IsSpace(Head(t))
         THEN IF Tail(t) # <<>> /\ IsSpace(Head(Tail(t)))
              THEN SplitWords(Tail(t), cur, acc)
              ELSE SplitWords(Tail(t), <<>>, Append(acc, cur))
         ELSE SplitWords(Tail(t), Append(cur, Head(t)), acc)

RECURSIVE JoinWords(_)
JoinWords(ws) ==
    IF ws = <<>> THEN <<>>
    ELSE IF Len(ws) = 1 THEN ws[1]
    ELSE ws[1] \o <<" ">> \o JoinWords(Tail(ws))

MAX_SUMMARY_WORDS == 10

generateSummary(text) ==
    IF text = <<>>
    THEN <<"N", "o", " ", "c", "o", "n", "t", "e", "n", "t">>
    ELSE LET words == SplitWords(Trim(text), <<>>, <<>>)
         IN  IF Len(words) > MAX_SUMMARY_WORDS
             THEN JoinWords(SubSeq(words, 1, MAX_SUMMARY_WORDS))
                    \o <<".", ".", ".">>
             ELSE JoinWords(words)

ToLowerChar(c) ==
    CASE c = "A" -> "a" [] c = "B" -> "b" [] c = "N" -> "n" [] OTHER -> c

ToLowerCase(t) == [k \in 1..Len(t) |-> ToLowerChar(t[k])]

\* String.prototype.includes
Includes(t, term) ==
    \E k \in 0..(Len(t) - Len(term)) :
        SubSeq(t, k + 1, k + Len(term)) = term

Digit(k) == CASE k = 0 -> "0" [] k = 1 -> "1" [] k = 2 -> "2" [] k = 3 -> "3"
              [] k = 4 -> "4" [] k = 5 -> "5" [] k = 6 -> "6" [] k = 7 -> "7"
              [] k = 8 -> "8" [] k = 9 -> "9"

RECURSIVE Decimal(_)
Decimal(k) == IF k < 10 THEN <<Digit(k)>>
              ELSE Decimal(k \div 10) \o <<Digit(k % 10)>>

\* The summary argument of addNavItem: `<strong>${index + 1}.</strong> ${summary}`
NavSummary(item) ==
    <<"<", "s", "t", "r", "o", "n", "g", ">">> \o Decimal(item.ordinal)
      \o <<".", "<", "/", "s", "t", "r", "o", "n", "g", ">", " ">>
      \o generateSummary(item.text)

\* ------------------------------------------------------ navigation list
\* The entry numbered by the record's 0-based index.
NavItemFor_ZeroBased(d, q, k) ==
    LET byId   == getElementById(d, q.elementId)
        byText == IndexOfText(d, q.text, 1)
        target == IF byId # 0 THEN byId ELSE byText
    IN  [ordinal     |-> k - 1,
         text        |-> q.text,
         target      |-> IF target # 0 THEN d[target].id ELSE NoId,
         fullText    |-> IF target # 0 THEN d[target].inner ELSE <<>>,
         placeholder |-> target = 0,
         display     |-> TRUE,
         highlighted |-> FALSE,
         active      |-> FALSE]

\* One pass of the forEach of rebuildNavigationFromSession followed by
\* addNavItem: the entry for record q at position k (0-based index k - 1).
NavItemFor(d, q, k) ==
    LET byId   == getElementById(d, q.elementId)
        byText == IndexOfText(d, q.text, 1)
        target == IF byId # 0 THEN byId ELSE byText
    IN  [ordinal     |-> k,
         text        |-> q.text,
         target      |-> IF target # 0 THEN d[target].id ELSE NoId,
         fullText    |-> IF target # 0 THEN d[target].inner ELSE <<>>,
         placeholder |-> target = 0,
         display     |-> TRUE,
         highlighted |-> FALSE,
         active      |-> FALSE]

\* addNavItem returns without adding when an entry for the same target
\* element is already in the document.
RECURSIVE BuildNav(_, _, _, _)
BuildNav(d, vq, k, acc) ==
    IF k > Len(vq) THEN acc
    ELSE LET item == NavItemFor(d, vq[k], k)
             dup  == /\ ~item.placeholder
                     /\ \E j \in 1..Len(acc) :
                           ~acc[j].placeholder /\ acc[j].target = item.target
         IN  BuildNav(d, vq, k + 1, IF dup THEN acc ELSE Append(acc, item))


\* ------------------------------------------------------------ providers
ProviderNames == <<"Gemini", "ChatGPT", "Claude", "AI Studio">>
NoProvider == "none"

domains(name) ==
    CASE name = "Gemini"    -> {"gemini.google.com"}
      [] name = "ChatGPT"   -> {"chatgpt.com"}
      [] name = "Claude"    -> {"claude.ai"}
      [] name = "AI Studio" -> {"aistudio.google.com"}

\* An address is the set of registered domain strings it contains as
\* substrings, and a page number that tells addresses of one host apart.
Addresses ==
    { [has |-> {"chatgpt.com"}, page |-> 1],
      [has |-> {"chatgpt.com"}, page |-> 2],
      [has |-> {"gemini.google.com", "chatgpt.com"}, page |-> 1],
      [has |-> {}, page |-> 1] }

\* AIProvider.matches: domains.some(domain => currentUrl.includes(domain))
matches(name, addr) == \E dm \in domains(name) : dm \in addr.has

\* getCurrentProvider with findLast in place of find.
getCurrentProvider_Last(addr) ==
    IF \E k \in 1..Len(ProviderNames) : matches(ProviderNames[k], addr)
    THEN ProviderNames[CHOOSE k \in 1..Len(ProviderNames) :
            /\ matches(ProviderNames[k], addr)
            /\ \A j \in (k + 1)..Len(ProviderNames) :
                  ~matches(ProviderNames[j], addr)]
    ELSE NoProvider

\* ProviderFactory.getCurrentProvider: providers.find(p => p.matches()) || null
getCurrentProvider(addr) ==
    IF \E k \in 1..Len(ProviderNames) : matches(ProviderNames[k], addr)
    THEN ProviderNames[CHOOSE k \in 1..Len(ProviderNames) :
            /\ matches(ProviderNames[k], addr)
            /\ \A j \in 1..(k - 1) : ~matches(ProviderNames[j], addr)]
    ELSE NoProvider

\* The provider's inputField locator: the input elements of the host page.
Inputs == {"in1", "in2"}
inputField(name) == IF name = NoProvider THEN {} ELSE Inputs

\* ---------------------------------------------------------------- state
NoCall == [fn |-> "none"]

NoTimer == -1
\* The step of the clock: the shortest delay, which divides every other.
TickStep == URL_CHECK_DELAY

VARIABLES
    dom,                     \* located turn elements, in tree order
    nextId,                  \* identity tokens generated so far
    sessionQueries,          \* the session store
    allNavItems,             \* the navigation list
    phase,                   \* position inside processChatElements
    cycleBy,                 \* the trigger whose callback is running
    location,                \* window.location.href
    currentUrl,
    currentProvider,
    navBar,                  \* the sidebar exists
    listening,               \* setupPageChangeDetection has run
    observing,               \* "none", "container" or "body"
    selectors,               \* the provider whose selectors the submit listeners hold
    isLoading,
    refreshBtnDisabled,
    searchValue,
    searchTimeout,
    pendingSearchTerm,       \* the term the pending search callback holds
    currentNavigationIndex,
    keyboardNavigationActive,
    initTimer,
    observerTimeout,
    refreshTimers,
    reenableTimers,
    urlTimers,
    visTimers,
    submitTimers,
    collapsed,               \* navBar.classList.contains('collapsed')
    sidebarCollapsedByFocus,
    focusModeEnabled,
    focusBlurTimeout,
    attachedInputElements,
    activeElement,
    mainContentArea,         \* what the layout selectors find: "selector", "fallback", "none"
    marginRight,             \* mainContentArea.style.marginRight
    layoutTimers,            \* pending retries of adjustMainContentLayout
    call,                    \* the last call of a pure function: name, argument, result
    hist                     \* observations about the run, never read by the program

vars == << dom, nextId, sessionQueries, allNavItems, phase, cycleBy,
           location, currentUrl, currentProvider, navBar, listening,
           observing, selectors, isLoading, refreshBtnDisabled,
           searchValue,
           searchTimeout, pendingSearchTerm,
           currentNavigationIndex, keyboardNavigationActive, initTimer,
           observerTimeout, refreshTimers, reenableTimers, urlTimers,
           visTimers, submitTimers, collapsed, sidebarCollapsedByFocus,
           focusModeEnabled, focusBlurTimeout, attachedInputElements,
           activeElement, mainContentArea, marginRight, layoutTimers,
           call, hist >>

\* The state as one record, so that a handler that calls other handlers is
\* the composition of their effects.
St ==
    [dom |-> dom, nextId |-> nextId, sessionQueries |-> sessionQueries,
     allNavItems |-> allNavItems, phase |-> phase, cycleBy |-> cycleBy,
     location |-> location, currentUrl |-> currentUrl,
     currentProvider |-> currentProvider, navBar |-> navBar,
     listening |-> listening, observing |-> observing,
     selectors |-> selectors,
     isLoading |-> isLoading, refreshBtnDisabled |-> refreshBtnDisabled,
     searchValue |-> searchValue, searchTimeout |-> searchTimeout,
     pendingSearchTerm |-> pendingSearchTerm,
     currentNavigationIndex |-> currentNavigationIndex,
     keyboardNavigationActive |-> keyboardNavigationActive,
     initTimer |-> initTimer, observerTimeout |-> observerTimeout,
     refreshTimers |-> refreshTimers, reenableTimers |-> reenableTimers,
     urlTimers |-> urlTimers, visTimers |-> visTimers,
     submitTimers |-> submitTimers, collapsed |-> collapsed,
     sidebarCollapsedByFocus |-> sidebarCollapsedByFocus,
     focusModeEnabled |-> focusModeEnabled,
     focusBlurTimeout |-> focusBlurTimeout,
     attachedInputElements |-> attachedInputElements,
     activeElement |-> activeElement,
     mainContentArea |-> mainContentArea, marginRight |-> marginRight,
     layoutTimers |-> layoutTimers, call |-> call, hist |-> hist]

CommitStep(s, keyed) ==
    /\ dom' = s.dom
    /\ nextId' = s.nextId
    /\ sessionQueries' = s.sessionQueries
    /\ allNavItems' = s.allNavItems
    /\ phase' = s.phase
    /\ cycleBy' = s.cycleBy
    /\ location' = s.location
    /\ currentUrl' = s.currentUrl
    /\ currentProvider' = s.currentProvider
    /\ navBar' = s.navBar
    /\ listening' = s.listening
    /\ observing' = s.observing
    /\ selectors' = s.selectors
    /\ isLoading' = s.isLoading
    /\ refreshBtnDisabled' = s.refreshBtnDisabled
    /\ searchValue' = s.searchValue
    /\ searchTimeout' = s.searchTimeout
    /\ pendingSearchTerm' = s.pendingSearchTerm
    /\ currentNavigationIndex' = s.currentNavigationIndex
    /\ keyboardNavigationActive' = s.keyboardNavigationActive
    /\ initTimer' = s.initTimer
    /\ observerTimeout' = s.observerTimeout
    /\ refreshTimers' = s.refreshTimers
    /\ reenableTimers' = s.reenableTimers
    /\ urlTimers' = s.urlTimers
    /\ visTimers' = s.visTimers
    /\ submitTimers' = s.submitTimers
    /\ collapsed' = s.collapsed
    /\ sidebarCollapsedByFocus' = s.sidebarCollapsedByFocus
    /\ focusModeEnabled' = s.focusModeEnabled
    /\ focusBlurTimeout' = s.focusBlurTimeout
    /\ attachedInputElements' = s.attachedInputElements
    /\ activeElement' = s.activeElement
    /\ mainContentArea' = s.mainContentArea
    /\ marginRight' = s.marginRight
    /\ layoutTimers' = s.layoutTimers
    /\ call' = s.call
    /\ hist' = [s.hist EXCEPT !.expandedSinceBlur = @ \/ ~s.collapsed,
                              !.keyed = keyed]

Commit(s) == CommitStep(s, FALSE)


\* ------------------------------------------------------------ handlers
\* The observer callback leaving a pending timer as it is instead of
\* clearing it and starting a new one.
ObserverCallback_NoReset(s) ==
    IF s.observing = "none" THEN s
    ELSE [s EXCEPT !.observerTimeout = IF @ = NoTimer
                                       THEN OBSERVER_DEBOUNCE_TIME ELSE @,
                   !.hist.sinceNotify = 0,
                   !.hist.obsRuns = 0,
                   !.hist.burst = IF s.observerTimeout = NoTimer THEN 1
                                  ELSE IF s.hist.sinceNotify > 0 THEN 2
                                  ELSE @]

\* The MutationObserver callback of observeChatContainer: clearTimeout and
\* setTimeout(..., OBSERVER_DEBOUNCE_TIME).
ObserverCallback(s) ==
    IF s.observing = "none" THEN s
    ELSE [s EXCEPT !.observerTimeout = OBSERVER_DEBOUNCE_TIME,
                   !.hist.sinceNotify = 0,
                   !.hist.obsRuns = 0,
                   !.hist.burst = IF s.observerTimeout = NoTimer THEN 1
                                  ELSE IF s.hist.sinceNotify > 0 THEN 2
                                  ELSE @]

\* A change the script itself makes under document.body (the sidebar is a
\* child of body) is reported to the observer when it observes body.
SelfMutation(s, changed) ==
    IF changed /\ s.observing = "body" THEN ObserverCallback(s) ELSE s

clearNavigationHighlight(s) ==
    [s EXCEPT !.allNavItems =
                  [k \in 1..Len(s.allNavItems) |->
                      [s.allNavItems[k] EXCEPT !.highlighted = FALSE]],
              !.currentNavigationIndex = -1,
              !.keyboardNavigationActive = FALSE]

resetNavigationIndex(s) == clearNavigationHighlight(s)

showLoadingState(s) ==
    IF ~s.navBar \/ s.isLoading THEN s
    ELSE SelfMutation(
           resetNavigationIndex([s EXCEPT !.isLoading = TRUE,
                                          !.allNavItems = <<>>]),
           TRUE)

\* hideLoadingState leaving the loading flag set.
hideLoadingState_KeepFlag(s) ==
    IF ~s.navBar \/ ~s.isLoading THEN s
    ELSE SelfMutation(s, TRUE)

hideLoadingState(s) ==
    IF ~s.navBar \/ ~s.isLoading THEN s
    ELSE SelfMutation([s EXCEPT !.isLoading = FALSE], TRUE)

detachAllInputEventListeners(s) == [s EXCEPT !.attachedInputElements = {}]

resetFocusModeState(s) ==
    detachAllInputEventListeners(
        [s EXCEPT !.focusBlurTimeout = NoTimer,
                  !.sidebarCollapsedByFocus = FALSE])

setupFocusMode(s) ==
    IF s.currentProvider = NoProvider \/ ~s.focusModeEnabled THEN s
    ELSE IF inputField(s.currentProvider) = {} THEN s
    ELSE [s EXCEPT !.attachedInputElements =
                       @ \cup inputField(s.currentProvider)]

reattachInputListeners(s) ==
    IF ~s.focusModeEnabled \/ s.currentProvider = NoProvider THEN s
    ELSE setupFocusMode(detachAllInputEventListeners(s))

\* refreshData without `sessionQueries = []`.
refreshData_KeepStore(s) ==
    LET s1 == showLoadingState(s)
        s3 == resetFocusModeState(s1)
    IN  [s3 EXCEPT !.refreshTimers = Append(@, REFRESH_DELAY)]

refreshData(s) ==
    LET s1 == showLoadingState(s)
        s2 == [s1 EXCEPT !.sessionQueries = <<>>]
        s3 == resetFocusModeState(s2)
    IN  [s3 EXCEPT !.refreshTimers = Append(@, REFRESH_DELAY)]

handleUrlChange(s) ==
    IF s.location = s.currentUrl THEN s
    ELSE LET s1          == [s EXCEPT !.currentUrl = s.location]
             newProvider == getCurrentProvider(s.location)
         IN  IF newProvider # NoProvider /\ newProvider = s.currentProvider
             THEN refreshData([s1 EXCEPT !.hist.dormant = FALSE])
             ELSE IF newProvider # NoProvider
             THEN refreshData([s1 EXCEPT !.currentProvider = newProvider,
                                         !.hist.dormant = FALSE])
             ELSE [s1 EXCEPT !.hist.dormant = TRUE]

MAX_LAYOUT_RETRIES == 3
LAYOUT_RETRY_DELAY == 1000

\* adjustMainContentLayout retrying once more than the source does.
adjustMainContentLayout_OneMore(s, retryCount) ==
    IF s.currentProvider = NoProvider THEN s
    ELSE IF s.mainContentArea = "selector"
    THEN [s EXCEPT !.marginRight = IF s.navBar /\ s.collapsed
                                   THEN "0px" ELSE "margin"]
    ELSE IF retryCount <= MAX_LAYOUT_RETRIES
    THEN [s EXCEPT !.layoutTimers =
             Append(@, [t |-> LAYOUT_RETRY_DELAY,
                        retryCount |-> retryCount + 1])]
    ELSE IF s.mainContentArea = "fallback"
    THEN IF s.navBar /\ ~s.collapsed
         THEN [s EXCEPT !.marginRight = "margin"] ELSE s
    ELSE [s EXCEPT !.hist.abandoned = TRUE]

\* The margin is set on the element a provider selector finds; when none
\* finds one, a retry is scheduled, and after the last retry the fallback
\* selectors are tried once.
adjustMainContentLayout(s, retryCount) ==
    IF s.currentProvider = NoProvider THEN s
    ELSE IF s.mainContentArea = "selector"
    THEN [s EXCEPT !.marginRight = IF s.navBar /\ s.collapsed
                                   THEN "0px" ELSE "margin"]
    ELSE IF retryCount < MAX_LAYOUT_RETRIES
    THEN [s EXCEPT !.layoutTimers =
             Append(@, [t |-> LAYOUT_RETRY_DELAY,
                        retryCount |-> retryCount + 1])]
    ELSE IF s.mainContentArea = "fallback"
    THEN IF s.navBar /\ ~s.collapsed
         THEN [s EXCEPT !.marginRight = "margin"] ELSE s
    ELSE [s EXCEPT !.hist.abandoned = TRUE]

collapseSidebarForFocus(s) ==
    IF ~s.navBar \/ s.sidebarCollapsedByFocus THEN s
    ELSE adjustMainContentLayout(
           [s EXCEPT !.sidebarCollapsedByFocus = TRUE, !.collapsed = TRUE], 0)

\* expandSidebarFromFocus without the test of the focus-origin flag.
expandSidebarFromFocus_Always(s) ==
    IF ~s.navBar THEN s
    ELSE adjustMainContentLayout(
           [s EXCEPT !.sidebarCollapsedByFocus = FALSE, !.collapsed = FALSE],
           0)

\* expandSidebarFromFocus leaving the focus-origin flag set.
expandSidebarFromFocus_KeepFlag(s) ==
    IF ~s.navBar \/ ~s.sidebarCollapsedByFocus THEN s
    ELSE adjustMainContentLayout([s EXCEPT !.collapsed = FALSE], 0)

expandSidebarFromFocus(s) ==
    IF ~s.navBar \/ ~s.sidebarCollapsedByFocus THEN s
    ELSE adjustMainContentLayout(
           [s EXCEPT !.sidebarCollapsedByFocus = FALSE, !.collapsed = FALSE],
           0)

handleInputFocus(s) ==
    IF ~s.focusModeEnabled \/ ~s.navBar THEN s
    ELSE IF s.collapsed THEN s
    ELSE collapseSidebarForFocus(s)

handleInputBlur(s) ==
    IF ~s.focusModeEnabled \/ ~s.sidebarCollapsedByFocus THEN s
    ELSE [s EXCEPT !.focusBlurTimeout = BLUR_DELAY]

\* The callback of the blur timer expanding without looking where focus is.
BlurCallback_NoFocusCheck(s) == expandSidebarFromFocus(s)

\* The callback of the blur timer.
BlurCallback(s) ==
    LET inputSelectors == inputField(s.currentProvider)
    IN  IF inputSelectors = {} THEN s
        ELSE IF s.activeElement \in inputSelectors THEN s
        ELSE expandSidebarFromFocus(s)

\* toggleNav without clearing the focus-origin flag.
toggleNav_KeepFlag(s) ==
    IF ~s.navBar THEN s
    ELSE adjustMainContentLayout([s EXCEPT !.collapsed = ~s.collapsed], 0)

toggleNav(s) ==
    IF ~s.navBar THEN s
    ELSE LET s1 == IF s.collapsed /\ s.sidebarCollapsedByFocus
                   THEN [s EXCEPT !.sidebarCollapsedByFocus = FALSE]
                   ELSE s
         IN  adjustMainContentLayout([s1 EXCEPT !.collapsed = ~s.collapsed],
                                     0)

\* toggleFocusMode that does not restore a sidebar collapsed by focus.
toggleFocusMode_NoRestore(s, enabled) ==
    LET previousState == s.focusModeEnabled
        s1            == [s EXCEPT !.focusModeEnabled = enabled]
    IN  IF enabled /\ ~previousState THEN setupFocusMode(s1)
        ELSE IF ~enabled /\ previousState
        THEN detachAllInputEventListeners(s1)
        ELSE s1

toggleFocusMode(s, enabled) ==
    LET previousState == s.focusModeEnabled
        s1            == [s EXCEPT !.focusModeEnabled = enabled]
    IN  IF enabled /\ ~previousState THEN setupFocusMode(s1)
        ELSE IF ~enabled /\ previousState
        THEN LET s2 == detachAllInputEventListeners(s1)
             IN  IF s2.sidebarCollapsedByFocus
                 THEN expandSidebarFromFocus(s2) ELSE s2
        ELSE s1

HasCursor(s) ==
    \/ s.currentNavigationIndex >= 0
    \/ s.keyboardNavigationActive
    \/ \E k \in 1..Len(s.allNavItems) : s.allNavItems[k].highlighted

\* filterNavItems leaving the keyboard cursor as it is.
filterNavItems_KeepCursor(s, searchTerm) ==
    [s EXCEPT !.hist.filtered = IF HasCursor(s) THEN "cursor" ELSE "idle",
              !.allNavItems =
            [k \in 1..Len(s.allNavItems) |->
                [s.allNavItems[k] EXCEPT !.display =
                    IF searchTerm = <<>> THEN TRUE
                    ELSE \/ Includes(ToLowerCase(NavSummary(s.allNavItems[k])),
                                     searchTerm)
                         \/ Includes(ToLowerCase(s.allNavItems[k].fullText),
                                     searchTerm)]]]

filterNavItems(s, searchTerm) ==
    resetNavigationIndex(
        [s EXCEPT !.hist.filtered = IF HasCursor(s) THEN "cursor" ELSE "idle",
                  !.allNavItems =
            [k \in 1..Len(s.allNavItems) |->
                [s.allNavItems[k] EXCEPT !.display =
                    IF searchTerm = <<>> THEN TRUE
                    ELSE \/ Includes(ToLowerCase(NavSummary(s.allNavItems[k])),
                                     searchTerm)
                         \/ Includes(ToLowerCase(s.allNavItems[k].fullText),
                                     searchTerm)]]])

clearSearch(s) == filterNavItems([s EXCEPT !.searchValue = <<>>], <<>>)

SEARCH_DELAY == 200

\* The input listener of the search field, after the field's value has
\* become value: the pending callback is replaced by one for the new term.
handleSearch(s, value) ==
    [s EXCEPT !.searchValue = value,
              !.pendingSearchTerm = Trim(ToLowerCase(value)),
              !.searchTimeout = SEARCH_DELAY]

\* The click listener addNavItem gives an entry: it scrolls to the target
\* and marks the entry, and no other, active.
clickNavItem(s, k) ==
    [s EXCEPT !.allNavItems =
                  [j \in 1..Len(s.allNavItems) |->
                      [s.allNavItems[j] EXCEPT !.active = (j = k)]],
              !.hist.activated = k]

\* The positions in allNavItems of the entries that are displayed, in order.
RECURSIVE VisibleFrom(_, _)
VisibleFrom(nav, k) ==
    IF k > Len(nav) THEN <<>>
    ELSE (IF nav[k].display THEN <<k>> ELSE <<>>) \o VisibleFrom(nav, k + 1)

visibleNavItems(s) == VisibleFrom(s.allNavItems, 1)

updateNavigationHighlight(s, visible) ==
    LET i == s.currentNavigationIndex
    IN  [s EXCEPT !.allNavItems =
            [k \in 1..Len(s.allNavItems) |->
                [s.allNavItems[k] EXCEPT !.highlighted =
                    i >= 0 /\ i < Len(visible) /\ visible[i + 1] = k]]]

Keys == {"ArrowUp", "ArrowDown", "Enter", "Escape", "Tab"}

\* tagName INPUT or TEXTAREA, or contentEditable: the search field and the
\* providers' input fields.
TextInputLike(el) == el = "search" \/ el \in Inputs

\* The switch of handleArrowNavigation over the displayed entries.
traverse(s, key) ==
    LET visible == visibleNavItems(s)
        n == Len(visible)
        i == s.currentNavigationIndex
    IN  IF n = 0 THEN s
        ELSE CASE key = "ArrowDown" ->
                 updateNavigationHighlight(
                     [s EXCEPT !.keyboardNavigationActive = TRUE,
                               !.currentNavigationIndex = (i + 1) % n],
                     visible)
               [] key = "ArrowUp" ->
                 updateNavigationHighlight(
                     [s EXCEPT !.keyboardNavigationActive = TRUE,
                               !.currentNavigationIndex =
                                   IF i <= 0 THEN n - 1 ELSE i - 1],
                     visible)
               [] key = "Enter" ->
                 IF s.keyboardNavigationActive /\ i >= 0 /\ i < n
                 THEN clickNavItem(s, visible[i + 1]) ELSE s
               [] key = "Escape" -> clearNavigationHighlight(s)
               [] OTHER -> s

\* handleArrowNavigation without the check of the collapsed class.
handleArrowNavigation_WhileCollapsed(s, key) ==
    IF ~s.navBar \/ s.allNavItems = <<>> THEN s
    ELSE IF key \notin {"ArrowUp", "ArrowDown", "Enter", "Escape"} THEN s
    ELSE IF TextInputLike(s.activeElement)
    THEN IF key = "Escape" /\ s.activeElement = "search"
         THEN clearNavigationHighlight(clearSearch(s)) ELSE s
    ELSE traverse(s, key)

\* handleArrowNavigation without the check of the focused element.
handleArrowNavigation_WhileTyping(s, key) ==
    IF ~s.navBar \/ s.collapsed \/ s.allNavItems = <<>> THEN s
    ELSE IF key \notin {"ArrowUp", "ArrowDown", "Enter", "Escape"} THEN s
    ELSE traverse(s, key)

handleArrowNavigation(s, key) ==
    IF ~s.navBar \/ s.collapsed \/ s.allNavItems = <<>> THEN s
    ELSE IF key \notin {"ArrowUp", "ArrowDown", "Enter", "Escape"} THEN s
    ELSE IF TextInputLike(s.activeElement)
    THEN IF key = "Escape" /\ s.activeElement = "search"
         THEN clearNavigationHighlight(clearSearch(s)) ELSE s
    ELSE traverse(s, key)

\* The texts of the records that have no live element: none carries the
\* record's elementId and none has its text.
Orphans(d, sq) ==
    { sq[k].text : k \in { j \in 1..Len(sq) :
          /\ getElementById(d, sq[j].elementId) = 0
          /\ IndexOfText(d, sq[j].text, 1) = 0 } }

\* What the callback that called processChatElements does after it.
AfterCycle(s, by) ==
    LET s1 == CASE by = "refresh"  -> setupFocusMode(hideLoadingState(s))
                [] by = "observer" -> reattachInputListeners(s)
                [] OTHER           -> s
    IN  [s1 EXCEPT !.phase = "idle", !.cycleBy = "none",
                   !.hist.orphans = {}, !.hist.burst = 0,
                   !.hist.activated = 0, !.hist.filtered = "no",
                   !.hist.firedAt = -1,
                   !.hist.refreshCause = IF by = "refresh" THEN "none" ELSE @]

\* processChatElements revalidating the records before its forEach.
processChatElements_ValidateFirst(s, by) ==
    IF s.currentProvider = NoProvider THEN AfterCycle(s, by)
    ELSE LET r == Ingest(s.dom, validateSessionQueries(s.dom, s.sessionQueries),
                         s.nextId)
         IN  [s EXCEPT !.dom = r.dom, !.sessionQueries = r.sq,
                       !.nextId = r.nextId,
                       !.phase = "ingested", !.cycleBy = by,
                       !.hist.orphans = Orphans(s.dom, s.sessionQueries)]

\* processChatElements up to the end of its forEach.
processChatElements(s, by) ==
    IF s.currentProvider = NoProvider THEN AfterCycle(s, by)
    ELSE LET r == Ingest(s.dom, s.sessionQueries, s.nextId)
         IN  [s EXCEPT !.dom = r.dom, !.sessionQueries = r.sq,
                       !.nextId = r.nextId,
                       !.phase = "ingested", !.cycleBy = by,
                       !.hist.orphans = Orphans(s.dom, s.sessionQueries)]

\* rebuildNavigationFromSession up to the return of validateSessionQueries.
RebuildValidate(s) ==
    IF ~s.navBar THEN AfterCycle(s, s.cycleBy)
    ELSE SelfMutation(
           [s EXCEPT !.allNavItems = <<>>,
                     !.sessionQueries = validateSessionQueries(s.dom, @),
                     !.phase = "validated"],
           s.allNavItems # <<>>)

\* The elementId updates of the forEach of rebuildNavigationFromSession.
RebindOne(d, q) ==
    LET byId   == getElementById(d, q.elementId)
        byText == IndexOfText(d, q.text, 1)
    IN  IF byId = 0 /\ byText # 0 /\ d[byText].id # NoId
           /\ d[byText].id # q.elementId
        THEN [q EXCEPT !.elementId = d[byText].id]
        ELSE q

\* rebuildNavigationFromSession from its forEach on.
RebuildEntries(s) ==
    LET nav == BuildNav(s.dom, s.sessionQueries, 1, <<>>)
        s1  == [s EXCEPT !.allNavItems = nav,
                         !.sessionQueries =
                             [k \in 1..Len(@) |-> RebindOne(s.dom, @[k])]]
    IN  AfterCycle(SelfMutation(s1, nav # <<>>), s.cycleBy)


\* ---------------------------------------------------------------- timers
MaxPending == 2    \* timers of one kind (refresh, address, ...) pending at once

\* The refreshData calls that the pending timers can still make.
Load(s) == Len(s.refreshTimers) + Len(s.urlTimers) + 2 * Len(s.visTimers)

Dec(t, step) == IF t > 0 THEN t - step ELSE t
DecAll(ts, step) == [k \in 1..Len(ts) |-> Dec(ts[k], step)]
HeadDue(ts) == ts # <<>> /\ Head(ts) = 0

\* The remaining delays of all pending timers.
Pending(s) ==
    { t \in {s.initTimer, s.observerTimeout, s.focusBlurTimeout,
              s.searchTimeout} : t >= 0 }
      \cup { s.refreshTimers[k] : k \in 1..Len(s.refreshTimers) }
      \cup { s.reenableTimers[k] : k \in 1..Len(s.reenableTimers) }
      \cup { s.urlTimers[k] : k \in 1..Len(s.urlTimers) }
      \cup { s.visTimers[k] : k \in 1..Len(s.visTimers) }
      \cup { s.submitTimers[k] : k \in 1..Len(s.submitTimers) }
      \cup { s.layoutTimers[k].t : k \in 1..Len(s.layoutTimers) }

AnyDue(s) == 0 \in Pending(s)

Aged(a, step, cap) ==
    IF a < 0 THEN a ELSE IF a + step > cap THEN cap ELSE a + step

\* Time passes by step; it cannot pass a timer that is due, and a callback
\* that has started runs to its end first.
TimePasses(step) ==
    /\ phase = "idle"
    /\ ~AnyDue(St)
    /\ \A t \in Pending(St) : step <= t
    /\ Commit([St EXCEPT
          !.initTimer        = Dec(@, step),
          !.observerTimeout  = Dec(@, step),
          !.focusBlurTimeout = Dec(@, step),
          !.searchTimeout    = Dec(@, step),
          !.refreshTimers    = DecAll(@, step),
          !.reenableTimers   = DecAll(@, step),
          !.urlTimers        = DecAll(@, step),
          !.visTimers        = DecAll(@, step),
          !.submitTimers     = DecAll(@, step),
          !.layoutTimers     = [k \in 1..Len(@) |->
                                   [@[k] EXCEPT !.t = Dec(@, step)]],
          !.hist.sinceNotify = Aged(@, step, OBSERVER_DEBOUNCE_TIME),
          !.hist.blurAge     = Aged(@, step, BLUR_DELAY)])

\* Time passes by one step of the clock.
Tick == TimePasses(TickStep)

\* Time passes until the next timer is due.
Elapse ==
    /\ Pending(St) # {}
    /\ \E step \in Pending(St) :
          /\ \A t \in Pending(St) : step <= t
          /\ TimePasses(step)

\* ------------------------------------------------------------------ init
\* The state after the script has loaded at address addr, over a page whose
\* layout target is area, and init() has returned; createNavBar ends with a
\* call of adjustMainContentLayout.
LoadedAt(addr, area) ==
    LET p == getCurrentProvider(addr)
    IN  adjustMainContentLayout(
        [dom |-> <<>>, nextId |-> 0, sessionQueries |-> <<>>,
         allNavItems |-> <<>>, phase |-> "idle", cycleBy |-> "none",
         location |-> addr, currentUrl |-> addr, currentProvider |-> p,
         navBar |-> p # NoProvider, listening |-> p # NoProvider,
         observing |-> "none", selectors |-> NoProvider,
         isLoading |-> FALSE,
         refreshBtnDisabled |-> FALSE, searchValue |-> <<>>,
         searchTimeout |-> NoTimer, pendingSearchTerm |-> <<>>,
         currentNavigationIndex |-> -1,
         keyboardNavigationActive |-> FALSE,
         initTimer |-> IF p # NoProvider THEN INIT_DELAY ELSE NoTimer,
         observerTimeout |-> NoTimer, refreshTimers |-> <<>>,
         reenableTimers |-> <<>>, urlTimers |-> <<>>, visTimers |-> <<>>,
         submitTimers |-> <<>>, collapsed |-> TRUE,
         sidebarCollapsedByFocus |-> FALSE, focusModeEnabled |-> TRUE,
         focusBlurTimeout |-> NoTimer, attachedInputElements |-> {},
         activeElement |-> "body", mainContentArea |-> area,
         marginRight |-> "unset", layoutTimers |-> <<>>, call |-> NoCall,
         hist |-> [sinceNotify |-> -1, obsRuns |-> 0, dormant |-> FALSE,
                   blurAge |-> -1, expandedSinceBlur |-> FALSE,
                   orphans |-> {}, refreshCause |-> "none",
                   firedAt |-> -1, burst |-> 0, blurFired |-> FALSE,
                   activated |-> 0, filtered |-> "no", keyed |-> FALSE,
                   abandoned |-> FALSE]],
        0)

\* The pages of the supported hosts have an element that a provider
\* selector finds.
InitState(addr) == LoadedAt(addr, "selector")

Starts(s) ==
    /\ dom = s.dom
    /\ nextId = s.nextId
    /\ sessionQueries = s.sessionQueries
    /\ allNavItems = s.allNavItems
    /\ phase = s.phase
    /\ cycleBy = s.cycleBy
    /\ location = s.location
    /\ currentUrl = s.currentUrl
    /\ currentProvider = s.currentProvider
    /\ navBar = s.navBar
    /\ listening = s.listening
    /\ observing = s.observing
    /\ selectors = s.selectors
    /\ isLoading = s.isLoading
    /\ refreshBtnDisabled = s.refreshBtnDisabled
    /\ searchValue = s.searchValue
    /\ searchTimeout = s.searchTimeout
    /\ pendingSearchTerm = s.pendingSearchTerm
    /\ currentNavigationIndex = s.currentNavigationIndex
    /\ keyboardNavigationActive = s.keyboardNavigationActive
    /\ initTimer = s.initTimer
    /\ observerTimeout = s.observerTimeout
    /\ refreshTimers = s.refreshTimers
    /\ reenableTimers = s.reenableTimers
    /\ urlTimers = s.urlTimers
    /\ visTimers = s.visTimers
    /\ submitTimers = s.submitTimers
    /\ collapsed = s.collapsed
    /\ sidebarCollapsedByFocus = s.sidebarCollapsedByFocus
    /\ focusModeEnabled = s.focusModeEnabled
    /\ focusBlurTimeout = s.focusBlurTimeout
    /\ attachedInputElements = s.attachedInputElements
    /\ activeElement = s.activeElement
    /\ mainContentArea = s.mainContentArea
    /\ marginRight = s.marginRight
    /\ layoutTimers = s.layoutTimers
    /\ call = s.call
    /\ hist = s.hist

InitAt(addrs) == \E addr \in addrs : Starts(InitState(addr))


\* ------------------------------------------------- the host page's tree
InsertAt(d, pos, el) == SubSeq(d, 1, pos - 1) \o <<el>> \o SubSeq(d, pos, Len(d))
RemoveAt(d, pos) == SubSeq(d, 1, pos - 1) \o SubSeq(d, pos + 1, Len(d))

Unmarked(d) == Cardinality({k \in 1..Len(d) : d[k].id = NoId})

\* The host page adds a turn element.
AddElementWithin(shapes, maxIds) ==
    /\ phase = "idle"
    /\ nextId + Unmarked(dom) < maxIds
    /\ \E sh \in shapes, pos \in 1..(Len(dom) + 1) :
          Commit(ObserverCallback(
              [St EXCEPT !.dom = InsertAt(dom, pos,
                                   [id |-> NoId, inner |-> sh.inner,
                                    sub |-> sh.sub])]))

AddElement(shapes) == AddElementWithin(shapes, MaxIds)

\* The host page removes a turn element (navigation, virtual scrolling).
RemoveElement ==
    /\ phase = "idle"
    /\ \E pos \in 1..Len(dom) :
          Commit(ObserverCallback([St EXCEPT !.dom = RemoveAt(dom, pos)]))

\* The host page re-renders the content of a turn element in place.
ChangeElement(shapes) ==
    /\ phase = "idle"
    /\ \E pos \in 1..Len(dom), sh \in shapes :
          /\ sh # [inner |-> dom[pos].inner, sub |-> dom[pos].sub]
          /\ Commit(ObserverCallback(
                [St EXCEPT !.dom[pos].inner = sh.inner,
                           !.dom[pos].sub = sh.sub]))

\* Any other mutation under the observed container (a streamed response).
HostMutate ==
    /\ phase = "idle"
    /\ observing # "none"
    /\ Commit(ObserverCallback(St))

\* --------------------------------------------------- navigation events
\* history.pushState / history.replaceState as wrapped by
\* setupPageChangeDetection; unwrapped when it has not run.
HistoryNavigate(addrs, maxLoad) ==
    /\ phase = "idle"
    /\ Load(St) + 1 <= maxLoad
    /\ \E addr \in addrs :
          /\ addr # location
          /\ Commit([St EXCEPT !.location = addr,
                               !.urlTimers = IF listening
                                             THEN Append(@, URL_CHECK_DELAY)
                                             ELSE @])

UrlTimerFire ==
    /\ phase = "idle"
    /\ HeadDue(urlTimers)
    /\ LET s1 == [St EXCEPT !.urlTimers = Tail(@)]
           s2 == handleUrlChange(s1)
       IN  Commit([s2 EXCEPT !.hist.refreshCause =
                        IF s2.currentUrl = s1.currentUrl THEN @
                        ELSE IF getCurrentProvider(s1.location) = NoProvider
                        THEN @
                        ELSE IF getCurrentProvider(s1.location)
                                  = s1.currentProvider
                        THEN "url-same" ELSE "url-other"])

\* Back/forward navigation: the popstate listener calls handleUrlChange.
PopState(addrs, maxLoad) ==
    /\ phase = "idle"
    /\ Load(St) + 1 <= maxLoad
    /\ \E addr \in addrs :
          /\ addr # location
          /\ LET s1 == [St EXCEPT !.location = addr]
                 s2 == IF listening THEN handleUrlChange(s1) ELSE s1
             IN  Commit([s2 EXCEPT !.hist.refreshCause =
                            IF s2.currentUrl = s1.currentUrl THEN @
                            ELSE IF getCurrentProvider(addr) = NoProvider
                            THEN @
                            ELSE IF getCurrentProvider(addr)
                                      = s1.currentProvider
                            THEN "url-same" ELSE "url-other"])

\* visibilitychange with document.hidden false.
VisibilityRegain(maxLoad) ==
    /\ phase = "idle"
    /\ listening
    /\ Load(St) + 2 <= maxLoad
    /\ Commit([St EXCEPT !.visTimers = Append(@, VISIBILITY_DELAY)])

\* The callback of the visibility timer without the refresh that follows
\* the address check.
VisTimerFire_UrlOnly ==
    /\ phase = "idle"
    /\ HeadDue(visTimers)
    /\ Commit(handleUrlChange([St EXCEPT !.visTimers = Tail(@)]))

VisTimerFire ==
    /\ phase = "idle"
    /\ HeadDue(visTimers)
    /\ LET s1 == handleUrlChange([St EXCEPT !.visTimers = Tail(@)])
       IN  Commit(IF s1.currentProvider # NoProvider
                  THEN [refreshData(s1) EXCEPT !.hist.refreshCause = "visible"]
                  ELSE s1)

\* ---------------------------------------------------------- the triggers
\* The callback of init()'s timer.
InitTimerFire(containers) ==
    /\ phase = "idle"
    /\ initTimer = 0
    /\ \E container \in containers :
          LET s1 == refreshData([St EXCEPT !.initTimer = NoTimer,
                                           !.hist.refreshCause = "init"])
              s2 == IF s1.currentProvider = NoProvider THEN s1
                    ELSE [s1 EXCEPT !.observing = container,
                                    !.selectors = s1.currentProvider]
          IN  Commit(setupFocusMode(s2))

ObserverFire ==
    /\ phase = "idle"
    /\ observerTimeout = 0
    /\ Commit(processChatElements(
          [St EXCEPT !.observerTimeout = NoTimer,
                     !.hist.obsRuns = @ + 1,
                     !.hist.firedAt = St.hist.sinceNotify,
                     !.hist.sinceNotify = -1],
          "observer"))

RefreshFire ==
    /\ phase = "idle"
    /\ HeadDue(refreshTimers)
    /\ Commit(processChatElements([St EXCEPT !.refreshTimers = Tail(@)],
                                  "refresh"))

\* Enter without Shift inside the input field, a click on the submit
\* control, or a form submission inside the input container.
SubmitDetected(maxPending) ==
    /\ phase = "idle"
    /\ observing # "none"
    /\ Len(submitTimers) < maxPending
    /\ Commit([St EXCEPT !.submitTimers = Append(@, SUBMIT_DELAY)])

SubmitFire ==
    /\ phase = "idle"
    /\ HeadDue(submitTimers)
    /\ Commit(processChatElements([St EXCEPT !.submitTimers = Tail(@)],
                                  "submit"))

\* processChatElements calls rebuildNavigationFromSession, which validates
\* and then rebuilds.
CycleValidate ==
    /\ phase = "ingested"
    /\ Commit(RebuildValidate(St))

CycleRebuild ==
    /\ phase = "validated"
    /\ Commit(RebuildEntries(St))


\* --------------------------------------------------------- focus events
FocusTargets == Inputs \cup {"body", "search"}

\* Focus moves to target: blur is dispatched on the element that had focus,
\* then focus on the target; a handler runs when its listener is attached.
FocusMoveTo(targets) ==
    /\ phase = "idle"
    /\ \E target \in targets :
          /\ target # activeElement
          /\ target = "search" => navBar /\ ~collapsed
          /\ LET s1 == IF activeElement \in attachedInputElements
                       THEN handleInputBlur(St) ELSE St
                 s2 == [s1 EXCEPT !.activeElement = target,
                                  !.hist.blurFired = FALSE]
                 s3 == IF target \in s2.attachedInputElements
                       THEN handleInputFocus(s2) ELSE s2
             IN  Commit(
                   IF target \in Inputs
                   THEN [s3 EXCEPT !.hist.blurAge = -1]
                   ELSE IF activeElement \in Inputs /\ sidebarCollapsedByFocus
                   THEN [s3 EXCEPT !.hist.blurAge = 0,
                                   !.hist.expandedSinceBlur = FALSE]
                   ELSE s3)

FocusMove == FocusMoveTo(FocusTargets)

BlurTimerFire ==
    /\ phase = "idle"
    /\ focusBlurTimeout = 0
    /\ Commit(BlurCallback([St EXCEPT !.focusBlurTimeout = NoTimer,
                                       !.hist.blurFired = TRUE]))

\* A click on the collapse button or on the expand button.
ManualToggle ==
    /\ phase = "idle"
    /\ navBar
    /\ Commit(toggleNav(St))

\* --------------------------------------------- search and keyboard events
SearchValues == { <<>>, <<"A">>, <<"1">> }

\* The user edits the search field, which has the focus.
SearchInput(values) ==
    /\ phase = "idle"
    /\ navBar /\ ~collapsed
    /\ activeElement = "search"
    /\ \E value \in values :
          /\ value # searchValue
          /\ Commit(handleSearch(St, value))

\* The callback of the search timer.
SearchFire ==
    /\ phase = "idle"
    /\ searchTimeout = 0
    /\ Commit(filterNavItems([St EXCEPT !.searchTimeout = NoTimer],
                             pendingSearchTerm))

\* A click on the clear button, which handleSearch displays while the
\* field holds a term.
ClearClick ==
    /\ phase = "idle"
    /\ navBar /\ ~collapsed
    /\ Trim(ToLowerCase(searchValue)) # <<>>
    /\ Commit(clearSearch(St))

\* A keydown event on the document.
KeyDown(key) ==
    /\ phase = "idle"
    /\ listening
    /\ CommitStep(handleArrowNavigation(
                     [St EXCEPT !.hist.activated = 0, !.hist.filtered = "no"],
                     key),
                  key \in {"ArrowUp", "ArrowDown", "Enter", "Escape"})

\* handleFocusModeToggle; the button is in the header, which is not
\* displayed while the sidebar is collapsed.
FocusModeClick ==
    /\ phase = "idle"
    /\ navBar /\ ~collapsed
    /\ Commit(toggleFocusMode(St, ~focusModeEnabled))

REENABLE_DELAY == 600

handleRefreshClick(s) ==
    LET s1 == IF Trim(s.searchValue) # <<>> THEN clearSearch(s) ELSE s
        s2 == refreshData([s1 EXCEPT !.refreshBtnDisabled = TRUE])
    IN  [s2 EXCEPT !.reenableTimers = Append(@, REENABLE_DELAY),
                   !.hist.refreshCause = "click"]

RefreshClick ==
    /\ phase = "idle"
    /\ navBar /\ ~collapsed /\ ~refreshBtnDisabled
    /\ Load(St) + 1 <= MaxPending
    /\ Commit(handleRefreshClick(St))

ReenableFire ==
    /\ phase = "idle"
    /\ HeadDue(reenableTimers)
    /\ Commit([St EXCEPT !.reenableTimers = Tail(@),
                         !.refreshBtnDisabled = FALSE])

\* -------------------------------------------------------- specifications
TextShapes == { sh \in Shapes : sh.sub = NoNode /\ Trim(sh.inner) # <<>> }

SameHost == { a \in Addresses : a.has = {"chatgpt.com"} }

\* The reconciliation engine: every change of the tree, the initial load
\* and the mutation trigger.
Init == InitAt({ a \in SameHost : a.page = 1 })

Next ==
    \/ Elapse
    \/ AddElement(TextShapes)
    \/ RemoveElement
    \/ ChangeElement(TextShapes)
    \/ InitTimerFire({"container"})
    \/ ObserverFire
    \/ RefreshFire
    \/ CycleValidate
    \/ CycleRebuild

Spec == Init /\ [][Next]_vars


\* The page navigating between addresses of one host while its tree
\* changes.
InitRefresh == InitAt({ a \in SameHost : a.page = 1 })

NextRefresh ==
    \/ Elapse
    \/ AddElement(Shapes)
    \/ RemoveElement
    \/ PopState(SameHost, 1)
    \/ InitTimerFire({"container"})
    \/ ObserverFire
    \/ RefreshFire
    \/ CycleValidate
    \/ CycleRebuild

SpecRefresh == InitRefresh /\ [][NextRefresh]_vars

\* The scheduler: every trigger, on a clock of TickStep, over a tree of
\* plain turn elements.
PlainShapes == { sh \in TextShapes : sh.inner = <<"a">> }

InitSched == InitAt({ a \in SameHost : a.page = 1 })

NextSched ==
    \/ Tick
    \/ HostMutate
    \/ AddElement(PlainShapes)
    \/ RemoveElement
    \/ SubmitDetected(MaxPending)
    \/ SubmitFire
    \/ InitTimerFire({"container", "body"})
    \/ ObserverFire
    \/ RefreshFire
    \/ CycleValidate
    \/ CycleRebuild

SpecSched == InitSched /\ [][NextSched]_vars

\* Navigation: the script loaded at any address, the host page navigating
\* between addresses, the page being hidden and shown, and every trigger of
\* a cycle; time passes from one due timer to the next.
OtherHosts == { a \in Addresses : a.page = 1 }

InitNav == InitAt(OtherHosts)

NextNav ==
    \/ Elapse
    \/ HostMutate
    \/ HistoryNavigate(OtherHosts, 1)
    \/ UrlTimerFire
    \/ PopState(OtherHosts, 1)
    \/ VisibilityRegain(2)
    \/ VisTimerFire
    \/ SubmitDetected(1)
    \/ SubmitFire
    \/ InitTimerFire({"container", "body"})
    \/ ObserverFire
    \/ RefreshFire
    \/ CycleValidate
    \/ CycleRebuild

SpecNav == InitNav /\ [][NextNav]_vars

\* Navigation with the scheduling the browser guarantees: time passes, a due
\* timer's callback runs, and a callback that has started runs to its end.
\* The events of the host page and of the user are under no obligation.
SpecNavFair ==
    /\ SpecNav
    /\ WF_vars(Elapse)
    /\ WF_vars(UrlTimerFire)
    /\ WF_vars(VisTimerFire)
    /\ WF_vars(SubmitFire)
    /\ WF_vars(InitTimerFire({"container", "body"}))
    /\ WF_vars(ObserverFire)
    /\ WF_vars(RefreshFire)
    /\ WF_vars(CycleValidate)
    /\ WF_vars(CycleRebuild)

\* Focus mode: focus moving between the inputs and the rest of the page, the
\* user's toggles, and the refreshes of the refresh button and of an address
\* change on one host.
InitFocus == InitAt({ a \in SameHost : a.page = 1 })

NextFocus ==
    \/ Elapse
    \/ FocusMove
    \/ BlurTimerFire
    \/ ManualToggle
    \/ FocusModeClick
    \/ RefreshClick
    \/ ReenableFire
    \/ PopState(SameHost, 1)
    \/ InitTimerFire({"container"})
    \/ RefreshFire
    \/ CycleValidate
    \/ CycleRebuild

SpecFocus == InitFocus /\ [][NextFocus]_vars

\* The user acts on a page that has settled: no load, refresh or mutation
\* callback is pending.
Settled == initTimer = NoTimer /\ refreshTimers = <<>> /\ observerTimeout = NoTimer

UserToggles == Settled /\ ManualToggle
UserFocuses == Settled /\ FocusMoveTo({"body", "search"})
UserFocusesAny == Settled /\ FocusMoveTo({"body", "search", "in1"})
UserTypesDigit == Settled /\ SearchInput({<<"1">>})
UserTypes == Settled /\ SearchInput(SearchValues)
UserClears == Settled /\ ClearClick
UserPressesKey == Settled /\ \E key \in Keys : KeyDown(key)

\* The search field and the keys over the list of the turns that are in
\* the page when it loads: the user expands and collapses the sidebar, moves
\* the focus between the page and the search field, edits the field, clears
\* it and presses keys.
SearchShapes ==
    { [inner |-> t, sub |-> NoNode] : t \in { <<"A">>, <<"b">> } }

TurnsAtLoad == initTimer # NoTimer /\ AddElement(SearchShapes)

InitSearch == InitAt({ a \in SameHost : a.page = 1 })

NextSearch ==
    \/ Elapse
    \/ TurnsAtLoad
    \/ InitTimerFire({"container"})
    \/ RefreshFire
    \/ CycleValidate
    \/ CycleRebuild
    \/ UserToggles
    \/ UserFocuses
    \/ UserTypes
    \/ SearchFire
    \/ UserClears
    \/ UserPressesKey

SpecSearch == InitSearch /\ [][NextSearch]_vars

\* The keys under collapse and focus, over the same turns: the user toggles
\* the sidebar, moves the focus between the page, the search field and the
\* provider's input field, types and presses keys.
InitTyping == InitAt({ a \in SameHost : a.page = 1 })

NextTyping ==
    \/ Elapse
    \/ TurnsAtLoad
    \/ InitTimerFire({"container"})
    \/ RefreshFire
    \/ CycleValidate
    \/ CycleRebuild
    \/ UserToggles
    \/ UserFocusesAny
    \/ BlurTimerFire
    \/ UserTypesDigit
    \/ SearchFire
    \/ UserPressesKey

SpecTyping == InitTyping /\ [][NextTyping]_vars

\* The keys over a list that the mutation trigger rebuilds while turns come
\* and go.
KeyShapes ==
    { [inner |-> t, sub |-> NoNode] : t \in { <<"a">>, <<"A">>, <<"b">> } }

InitKeys == InitAt({ a \in SameHost : a.page = 1 })

NextKeys ==
    \/ Elapse
    \/ AddElementWithin(KeyShapes, MaxIds + 1)
    \/ RemoveElement
    \/ InitTimerFire({"container"})
    \/ ObserverFire
    \/ RefreshFire
    \/ CycleValidate
    \/ CycleRebuild
    \/ UserToggles
    \/ UserPressesKey

SpecKeys == InitKeys /\ [][NextKeys]_vars

\* ------------------------------------------------------------ the layout
\* The callback of a retry timer of adjustMainContentLayout.
LayoutRetryFire ==
    /\ phase = "idle"
    /\ layoutTimers # <<>>
    /\ Head(layoutTimers).t = 0
    /\ Commit(adjustMainContentLayout(
                 [St EXCEPT !.layoutTimers = Tail(@)],
                 Head(layoutTimers).retryCount))

Areas == {"selector", "fallback", "none"}

\* The host page renders or removes the elements the layout selectors find.
HostRenders(areas) ==
    /\ phase = "idle"
    /\ \E area \in areas :
          /\ area # mainContentArea
          /\ Commit([St EXCEPT !.mainContentArea = area])

\* Each toggle calls adjustMainContentLayout anew.
UserTogglesWithin(maxPending) ==
    /\ Len(layoutTimers) < maxPending
    /\ ManualToggle

InitLayout ==
    \E addr \in { a \in SameHost : a.page = 1 }, area \in Areas :
        Starts(LoadedAt(addr, area))

NextLayout ==
    \/ Elapse
    \/ TurnsAtLoad
    \/ HostRenders(Areas)
    \/ UserTogglesWithin(MaxPending)
    \/ LayoutRetryFire
    \/ InitTimerFire({"container"})
    \/ RefreshFire
    \/ CycleValidate
    \/ CycleRebuild

SpecLayout == InitLayout /\ [][NextLayout]_vars

\* ------------------------------------------------- extraction that fails
\* Turn elements with a text, and turn elements whose text cannot be read.
ThrowShapes ==
    { [inner |-> t, sub |-> NoNode] : t \in { <<"a">>, <<"b">>, Throws } }

NextThrow ==
    \/ Elapse
    \/ AddElementWithin(ThrowShapes, MaxIds + 1)
    \/ RemoveElement
    \/ InitTimerFire({"container"})
    \/ ObserverFire
    \/ RefreshFire
    \/ CycleValidate
    \/ CycleRebuild

SpecThrow == Init /\ [][NextThrow]_vars

\* ------------------------------------------------ the visibility trigger
\* The tab comes to the foreground again, at the same address or after the
\* address has changed, over turns that were in the tree at load.
NextVisible ==
    \/ Elapse
    \/ TurnsAtLoad
    \/ HistoryNavigate(SameHost, 2)
    \/ UrlTimerFire
    \/ VisibilityRegain(2)
    \/ VisTimerFire
    \/ InitTimerFire({"container"})
    \/ RefreshFire
    \/ CycleValidate
    \/ CycleRebuild

SpecVisible == InitSched /\ [][NextVisible]_vars

\* The browser's scheduling: a callback that has started runs to its end, a
\* due timer's callback runs, and time passes while timers are pending. Each
\* line is weak fairness of the steps it names (CycleValidate; CycleRebuild;
\* the callbacks of the due timers; Elapse), written by their guards: such a
\* step is the only one that ends its guard, and it does end it.
SpecVisibleFair ==
    /\ SpecVisible
    /\ []<>~(phase = "ingested")
    /\ []<>~(phase = "validated")
    /\ []<>~(phase = "idle" /\ AnyDue(St))
    /\ []<>~(phase = "idle" /\ ~AnyDue(St) /\ Pending(St) # {})

\* --------------------------------------------------- the submit listeners
\* document.querySelector(selectors.inputField): the first input element the
\* captured selectors locate.
firstInputField(name) == IF inputField(name) = {} THEN "none" ELSE "in1"

\* The listener without the test of the Shift key.
submitKeydown_AnyEnter(s, key, shiftKey, target) ==
    IF key = "Enter" /\ target = firstInputField(s.selectors)
    THEN [s EXCEPT !.submitTimers = Append(@, SUBMIT_DELAY)]
    ELSE s

\* The keydown listener of setupInputListeners.
submitKeydown(s, key, shiftKey, target) ==
    IF key = "Enter" /\ ~shiftKey /\ target = firstInputField(s.selectors)
    THEN [s EXCEPT !.submitTimers = Append(@, SUBMIT_DELAY)]
    ELSE s

\* Enter is pressed while an input element of the host page has focus: the
\* keydown listeners of the document run in the order they were added,
\* handleArrowNavigation (capture phase) first.
InputKeyDown(shiftKey, maxPending) ==
    /\ phase = "idle"
    /\ activeElement \in Inputs
    /\ Len(submitTimers) < maxPending
    /\ LET s0 == [St EXCEPT !.hist.activated = 0, !.hist.filtered = "no"]
           s1 == IF listening THEN handleArrowNavigation(s0, "Enter") ELSE s0
           s2 == IF s1.selectors = NoProvider THEN s1
                 ELSE submitKeydown(s1, "Enter", shiftKey, activeElement)
       IN  CommitStep(s2, TRUE)

UserPressesEnter == \E shiftKey \in BOOLEAN : InputKeyDown(shiftKey, MaxPending)

NextSubmit ==
    \/ Tick
    \/ HostMutate
    \/ FocusMoveTo(Inputs \cup {"body"})
    \/ UserPressesEnter
    \/ SubmitDetected(MaxPending)
    \/ SubmitFire
    \/ InitTimerFire({"body"})
    \/ ObserverFire
    \/ RefreshFire
    \/ CycleValidate
    \/ CycleRebuild

SpecSubmit == InitSched /\ [][NextSubmit]_vars


\* The pure functions, each called with every argument of a bounded set.
MaxWords == MAX_SUMMARY_WORDS + 1

Spaces(n) == [k \in 1..n |-> " "]

RECURSIVE Sentence(_, _, _)
Sentence(n, word, sep) ==
    IF n = 0 THEN <<>>
    ELSE IF n = 1 THEN word
    ELSE word \o sep \o Sentence(n - 1, word, sep)

\* Texts of up to MaxWords words, with one or two spaces between the words
\* and with or without a space before and after.
SummaryTexts ==
    { Spaces(lead) \o Sentence(n, word, Spaces(gap)) \o Spaces(trail) :
        n \in 0..MaxWords, word \in { <<"a">>, <<"a", "b">> },
        gap \in 1..2, lead \in 0..1, trail \in 0..1 }

AllDomains == UNION { domains(ProviderNames[k]) : k \in 1..Len(ProviderNames) }

\* Every combination of registered domains an address can contain.
AllAddresses == { [has |-> ds, page |-> 1] : ds \in SUBSET AllDomains }

CallGenerateSummary ==
    \E text \in SummaryTexts :
        Commit([St EXCEPT !.call = [fn |-> "generateSummary", arg |-> text,
                                    result |-> generateSummary(text)]])

CallGetCurrentProvider ==
    \E addr \in AllAddresses :
        Commit([St EXCEPT !.call = [fn |-> "getCurrentProvider", arg |-> addr,
                                    result |-> getCurrentProvider(addr)]])

InitPure == InitAt({ a \in SameHost : a.page = 1 })

NextPure ==
    \/ CallGenerateSummary
    \/ CallGetCurrentProvider

SpecPure == InitPure /\ [][NextPure]_vars

\* -------------------------------------------------------------- claims
\* One whole reconciliation cycle, as the three steps run it.
RunCycle(s) == RebuildEntries(RebuildValidate(processChatElements(s, "submit")))

CanCycle == phase = "idle" /\ currentProvider # NoProvider /\ navBar

\* C1: running the cycle twice in succession, with no change to the tree
\* between the runs, leaves after the second run the same session records
\* and the same navigation entries as after the first run.
C1_Idempotent ==
    CanCycle =>
        LET s1 == RunCycle(St)
            s2 == RunCycle(s1)
        IN  /\ s2.sessionQueries = s1.sessionQueries
            /\ s2.allNavItems = s1.allNavItems

UniqueRecords(sq) ==
    \A i, j \in 1..Len(sq) :
        i # j => /\ Trim(sq[i].text) # Trim(sq[j].text)
                 /\ sq[i].id # sq[j].id

IngestionStep == phase = "idle" /\ phase' = "ingested"

KeepsRecords ==
    /\ Len(sessionQueries') >= Len(sessionQueries)
    /\ \A k \in 1..Len(sessionQueries) : sessionQueries'[k] = sessionQueries[k]

\* C2: no two records of the store have the same trimmed text or the same
\* logical id, and the ingestion step leaves every record that was already
\* in the store as it was (a matching candidate is dropped, not merged).
C2_Dedup ==
    /\ [](UniqueRecords(sessionQueries))
    /\ [][IngestionStep => KeepsRecords]_vars

\* Two located elements with the same trimmed text have been ingested and
\* one record stands for both.
C2_Witness ==
    /\ phase = "ingested"
    /\ Len(dom) = 2
    /\ extractTextContent(dom[1]) # extractTextContent(dom[2])
    /\ Trim(extractTextContent(dom[1])) = Trim(extractTextContent(dom[2]))
    /\ Len(sessionQueries) = 1
    /\ sessionQueries[1].text = Trim(extractTextContent(dom[1]))

\* C3: a record whose bound element has left the tree, and whose text no
\* located element has, is still in the store after the next cycle and is
\* shown as a placeholder entry.
C3_OrphanKept ==
    [][(phase = "validated" /\ phase' = "idle") =>
          \A t \in hist.orphans :
              \E k \in 1..Len(sessionQueries') :
                  /\ sessionQueries'[k].text = t
                  /\ k <= Len(allNavItems')
                  /\ allNavItems'[k].placeholder]_vars

RecordIds(sq) == { sq[k].id : k \in 1..Len(sq) }

C5_TimerFromLastNotification ==
    /\ observerTimeout # NoTimer =>
          /\ hist.sinceNotify >= 0
          /\ observerTimeout = OBSERVER_DEBOUNCE_TIME - hist.sinceNotify
          /\ hist.obsRuns = 0
    /\ hist.obsRuns <= 1

MutationCycleStarts == cycleBy # "observer" /\ cycleBy' = "observer"

\* C5: the debounce timer always measures OBSERVER_DEBOUNCE_TIME from the
\* last notification (a notification during the delay cancels the pending
\* timer and starts a new one), a mutation-triggered cycle starts only when
\* exactly that delay has passed since the last notification, and no second
\* one starts until there is another notification.
C5_Debounce ==
    /\ [](C5_TimerFromLastNotification)
    /\ [][MutationCycleStarts =>
             /\ hist.sinceNotify = OBSERVER_DEBOUNCE_TIME
             /\ hist'.obsRuns = 1
             /\ observerTimeout' = NoTimer]_vars

\* The cycle of a burst of at least two notifications, the later one less
\* than the delay after the earlier, has started, the delay after the last.
C5_Witness ==
    /\ phase = "ingested"
    /\ cycleBy = "observer"
    /\ hist.burst = 2
    /\ hist.firedAt = OBSERVER_DEBOUNCE_TIME

SameProviderChange ==
    /\ currentUrl' # currentUrl
    /\ currentProvider # NoProvider
    /\ getCurrentProvider(location') = currentProvider

FromTree(d, sq) == \A k \in 1..Len(sq) : IndexOfText(d, sq[k].text, 1) # 0

\* C6: an address change that resolves to the provider in use empties the
\* store and schedules a cycle; when that cycle ends, every record has the
\* text of a located element of the tree as it then is.
C6_FreshOnSameProvider ==
    [][/\ SameProviderChange =>
             /\ sessionQueries' = <<>>
             /\ refreshTimers' # <<>>
             /\ refreshTimers'[Len(refreshTimers')] = REFRESH_DELAY
       /\ (cycleBy = "refresh" /\ phase = "validated" /\ phase' = "idle") =>
             FromTree(dom', sessionQueries')]_vars

\* The cycle after a same-provider address change has dropped a record made
\* from the previous tree and kept one made from the present tree.
C6_Witness ==
    /\ hist.refreshCause = "url-same"
    /\ cycleBy = "refresh"
    /\ phase = "validated"
    /\ hist.orphans # {}
    /\ sessionQueries # <<>>

\* C7: from an address change for which no provider resolves until an
\* address change that resolves one, no cycle is running.
C7_DormantRunsNoCycle == hist.dormant => phase = "idle"

Unresolved == currentProvider = NoProvider \/ hist.dormant

\* C8: whenever no provider is resolved (the script loaded on an unsupported
\* page, or an address change resolved none) and the address has since come
\* to resolve provider p, a cycle with p eventually runs, unless the address
\* changes again first.
C8_Recovers ==
    \A k \in 1..Len(ProviderNames) :
        (Unresolved /\ getCurrentProvider(location) = ProviderNames[k])
            ~> \/ phase = "ingested" /\ currentProvider = ProviderNames[k]
               \/ getCurrentProvider(location) # ProviderNames[k]

InputGainsFocus == activeElement' \in Inputs /\ activeElement' # activeElement

\* C9: when focus moves to an input element while the sidebar is expanded
\* and focus mode is enabled, the sidebar is collapsed and the focus-origin
\* flag is set after that step; when the sidebar is collapsed or focus mode
\* is disabled, the step leaves the sidebar and the flag as they were.
C9_FocusCollapses ==
    [][InputGainsFocus =>
          IF navBar /\ ~collapsed /\ focusModeEnabled
          THEN collapsed' /\ sidebarCollapsedByFocus'
          ELSE /\ collapsed' = collapsed
               /\ sidebarCollapsedByFocus' = sidebarCollapsedByFocus]_vars

BlurOnListenedInput ==
    /\ activeElement' # activeElement
    /\ activeElement \in attachedInputElements
    /\ focusModeEnabled
    /\ sidebarCollapsedByFocus

CollapsedByFocus ==
    navBar /\ collapsed /\ sidebarCollapsedByFocus /\ focusModeEnabled

DisablesAndExpands ==
    CollapsedByFocus =>
        LET s1 == toggleFocusMode(St, FALSE)
        IN  ~s1.focusModeEnabled /\ ~s1.collapsed /\ ~s1.sidebarCollapsedByFocus

FocusEventOnInput ==
    /\ activeElement' # activeElement
    /\ activeElement \in Inputs \/ activeElement' \in Inputs

OrdinalsIncrease ==
    \A i, j \in 1..Len(allNavItems) :
        i < j => allNavItems[i].ordinal < allNavItems[j].ordinal

\* The records that an ingestion step adds are in the order in which their
\* elements stand in the tree.
BatchInTreeOrder ==
    \A i, j \in (Len(sessionQueries) + 1)..Len(sessionQueries') :
        i < j => getElementById(dom', sessionQueries'[i].elementId)
                   < getElementById(dom', sessionQueries'[j].elementId)

CycleEnds == phase = "validated" /\ phase' = "idle"

EntriesFollowRecords(nav, sq) ==
    /\ Len(nav) = Len(sq)
    /\ \A k \in 1..Len(nav) : nav[k].text = sq[k].text

\* C14: the display ordinals are strictly increasing down the navigation
\* list; the records of one ingestion batch are stored in the tree order of
\* their elements, and a rebuild lists the entries in record order.
C14_OrderedEntries ==
    /\ [](OrdinalsIncrease)
    /\ [][/\ IngestionStep => BatchInTreeOrder
          /\ CycleEnds => EntriesFollowRecords(allNavItems', sessionQueries')]_vars

\* The first cycle after loading has ingested a batch of two elements.
C14_Witness ==
    /\ phase = "validated"
    /\ cycleBy = "refresh"
    /\ hist.refreshCause = "init"
    /\ Len(sessionQueries) = 2
    /\ Len(dom) = 2

\* What the claim calls containing the term: the entry's turn summary or
\* its full text, lowercased, has the term as a substring.
TurnContains(item, term) ==
    \/ Includes(ToLowerCase(generateSummary(item.text)), term)
    \/ Includes(ToLowerCase(item.fullText), term)

FilterApplies == SearchFire /\ pendingSearchTerm # <<>> /\ allNavItems # <<>>

\* C15: when a non-empty term is applied, no entry is removed and the
\* entries displayed afterwards are exactly those whose turn summary or
\* full text contains the term, case-insensitively.
C15_FilterShowsMatches ==
    [][FilterApplies =>
          /\ Len(allNavItems') = Len(allNavItems)
          /\ \A k \in 1..Len(allNavItems) :
                allNavItems'[k].display
                  <=> TurnContains(allNavItems[k], pendingSearchTerm)]_vars

\* A key press reaches the traversal: the sidebar is expanded, the focus is
\* not in a text control and at least one entry is displayed.
Traversing ==
    /\ navBar /\ ~collapsed
    /\ ~TextInputLike(activeElement)
    /\ visibleNavItems(St) # <<>>

\* The highlighted entry is exactly the displayed entry at the cursor.
HighlightAtCursor ==
    LET visible == visibleNavItems(St)
    IN  /\ currentNavigationIndex >= 0
        /\ currentNavigationIndex < Len(visible)
        /\ \A k \in 1..Len(allNavItems) :
              allNavItems[k].highlighted
                <=> k = visible[currentNavigationIndex + 1]

\* C16: with n >= 1 displayed entries and the sidebar expanded, Down moves
\* the cursor from i to (i + 1) mod n (from none to the first entry), Up
\* moves it from i to i - 1, from the first entry or from none to the last,
\* and after the key press the highlighted entry is exactly the displayed
\* entry at the cursor.
C16_CircularCursor ==
    [][LET n == Len(visibleNavItems(St))
           i == currentNavigationIndex
       IN  /\ (KeyDown("ArrowDown") /\ Traversing) =>
                 /\ currentNavigationIndex' = (IF i < 0 THEN 0 ELSE (i + 1) % n)
                 /\ HighlightAtCursor'
           /\ (KeyDown("ArrowUp") /\ Traversing) =>
                 /\ currentNavigationIndex' = (IF i <= 0 THEN n - 1 ELSE i - 1)
                 /\ HighlightAtCursor']_vars

\* C17: the entry that Enter activates is the highlighted one; with no
\* entry highlighted Enter activates none.
C17_EnterActivatesHighlighted ==
    [][KeyDown("Enter") =>
          (hist'.activated # 0 => allNavItems[hist'.activated].highlighted)]_vars

\* The step is a press of Up, Down, Enter or Escape.
KeyPressed == hist'.keyed

NoCursor ==
    /\ currentNavigationIndex = -1
    /\ ~keyboardNavigationActive
    /\ \A k \in 1..Len(allNavItems) : ~allNavItems[k].highlighted

\* The steps that apply the filter: the search timer's callback, the clear
\* button, Escape in the search field.
FilterStep ==
    \/ (searchTimeout = 0 /\ SearchFire)
    \/ (searchValue # <<>> /\ searchValue' = <<>> /\ ClearClick)
    \/ (/\ KeyPressed /\ activeElement = "search"
        /\ navBar /\ ~collapsed /\ allNavItems # <<>>
        /\ KeyDown("Escape"))

\* C18: after every application of the search filter, clearing included,
\* the cursor is none and no entry is highlighted.
C18_FilterResetsCursor ==
    /\ [][FilterStep => NoCursor']_vars
    /\ [](hist.filtered # "no" => NoCursor)

\* A filter has just been applied to a list in which the cursor was set.
C18_Witness == hist.filtered = "cursor" /\ allNavItems # <<>> /\ searchValue # <<>>

HighlightedAreDisplayed ==
    \A k \in 1..Len(allNavItems) :
        allNavItems[k].highlighted => allNavItems[k].display

\* C19: while the sidebar is collapsed no key press changes the cursor, the
\* highlight or the entries, and none activates an entry; the entries that
\* the traversal highlights or activates are displayed ones.
C19_CollapsedIgnoresKeys ==
    /\ [][(KeyPressed /\ collapsed) =>
             /\ currentNavigationIndex' = currentNavigationIndex
             /\ keyboardNavigationActive' = keyboardNavigationActive
             /\ allNavItems' = allNavItems
             /\ hist'.activated = 0]_vars
    /\ [](HighlightedAreDisplayed)
    /\ [][KeyPressed =>
             (hist'.activated # 0 => allNavItems[hist'.activated].display)]_vars

\* One of the four keys has just been pressed while the sidebar was
\* collapsed by focus, the cursor set and an entry hidden by the filter.
C19_Witness ==
    /\ hist.keyed
    /\ collapsed /\ sidebarCollapsedByFocus
    /\ currentNavigationIndex >= 0
    /\ \E k \in 1..Len(allNavItems) : allNavItems[k].highlighted
    /\ \E k \in 1..Len(allNavItems) : ~allNavItems[k].display

\* What Escape in the search field does: clearSearch, then
\* clearNavigationHighlight.
EscapeInSearch ==
    /\ activeElement = "search"
    /\ searchValue' = <<>>
    /\ NoCursor'
    /\ \A k \in 1..Len(allNavItems') : allNavItems'[k].display
    /\ hist'.activated = 0

KeyHasNoEffect ==
    /\ currentNavigationIndex' = currentNavigationIndex
    /\ keyboardNavigationActive' = keyboardNavigationActive
    /\ allNavItems' = allNavItems
    /\ searchValue' = searchValue
    /\ hist'.activated = 0

\* C20: while the focus is in a text control, a press of Up, Down, Enter or
\* Escape changes neither the cursor nor the entries and activates nothing,
\* except Escape pressed in the search field, which clears the filter and
\* the cursor.
C20_TypingSuppressesKeys ==
    [][(KeyPressed /\ TextInputLike(activeElement)) =>
          \/ KeyHasNoEffect
          \/ (KeyDown("Escape") /\ EscapeInSearch)]_vars

\* A key has just been pressed with the focus in the provider's input field
\* and the sidebar expanded over a list with the cursor set.
C20_Witness ==
    /\ hist.keyed
    /\ activeElement = "in1"
    /\ ~collapsed
    /\ currentNavigationIndex >= 0
    /\ \E k \in 1..Len(allNavItems) : allNavItems[k].highlighted

FilterCleared ==
    /\ searchValue = <<>>
    /\ \A k \in 1..Len(allNavItems) : allNavItems[k].display

\* C21: with the sidebar expanded, Escape pressed with the focus in the
\* search field leaves the search text empty, every entry displayed and no
\* entry highlighted, however many entries the list has.
C21_EscapeClearsSearch ==
    [][(/\ KeyPressed
        /\ activeElement = "search"
        /\ navBar /\ ~collapsed
        /\ KeyDown("Escape")) => (FilterCleared' /\ NoCursor')]_vars

\* The words of a text: its maximal runs of characters other than the space.
WordStarts(t) ==
    { i \in 1..Len(t) : t[i] # " " /\ (i = 1 \/ t[i - 1] = " ") }

WordFrom(t, i) ==
    SubSeq(t, i, CHOOSE j \in i..Len(t) :
                    /\ \A k \in i..j : t[k] # " "
                    /\ (j = Len(t) \/ t[j + 1] = " "))

NthWord(t, n) ==
    WordFrom(t, CHOOSE i \in WordStarts(t) :
                   Cardinality({ j \in WordStarts(t) : j <= i }) = n)

RECURSIVE FirstWords(_, _, _)
FirstWords(t, k, m) ==
    IF k > m THEN <<>>
    ELSE IF k = m THEN NthWord(t, k)
    ELSE NthWord(t, k) \o <<" ">> \o FirstWords(t, k + 1, m)

SummaryOf(t) ==
    LET n == Cardinality(WordStarts(t))
    IN  IF n = 0 THEN <<"N", "o", " ", "c", "o", "n", "t", "e", "n", "t">>
        ELSE IF n > 10 THEN FirstWords(t, 1, 10) \o <<".", ".", ".">>
        ELSE FirstWords(t, 1, n)

\* C22: generateSummary returns the first 10 words joined by single spaces
\* and followed by '...' for a text of more than 10 words, all the words for
\* a text of 10 or fewer, and 'No content' for an empty or blank text.
C22_Summary ==
    call.fn = "generateSummary" => call.result = SummaryOf(call.arg)

\* The providers in the order in which the factory registers them.
RegisteredBefore(name) ==
    CASE name = "Gemini"    -> {}
      [] name = "ChatGPT"   -> {"Gemini"}
      [] name = "Claude"    -> {"Gemini", "ChatGPT"}
      [] name = "AI Studio" -> {"Gemini", "ChatGPT", "Claude"}

Contains(addr, name) == domains(name) \cap addr.has # {}

\* C23: provider resolution returns the first provider in registration
\* order (Gemini, ChatGPT, Claude, AI Studio) one of whose domains the
\* address contains, never one registered after another that matches, and
\* none when the address contains no registered domain.
C23_FirstMatchWins ==
    call.fn = "getCurrentProvider" =>
        IF \A name \in {"Gemini", "ChatGPT", "Claude", "AI Studio"} :
               ~Contains(call.arg, name)
        THEN call.result = NoProvider
        ELSE /\ call.result \in {"Gemini", "ChatGPT", "Claude", "AI Studio"}
             /\ Contains(call.arg, call.result)
             /\ \A name \in RegisteredBefore(call.result) :
                   ~Contains(call.arg, name)

\* An address that two providers match has been resolved.
C23_Witness ==
    /\ call.fn = "getCurrentProvider"
    /\ Cardinality(call.arg.has) >= 2
    /\ call.result = "ChatGPT"

\* C24: at every moment at most one timer of each kind is pending: the
\* mutation debounce, the blur delay and the search delay are held in one
\* handle each; of the submission delay and of the refresh delay no two are
\* pending at once.
C24_OneTimerPerKind ==
    /\ Len(submitTimers) <= 1
    /\ Len(refreshTimers) <= 1

Scheduled == submitTimers' = Append(submitTimers, SUBMIT_DELAY)

C26_VisibleRefreshes ==
    /\ [][(VisTimerFire /\ currentProvider # NoProvider) =>
             /\ currentUrl' = location
             /\ sessionQueries' = <<>>
             /\ refreshTimers' # <<>>
             /\ refreshTimers'[Len(refreshTimers')] = REFRESH_DELAY]_vars
    /\ (visTimers # <<>>) ~> (hist.refreshCause = "visible")
    /\ (hist.refreshCause = "visible") ~> (cycleBy = "refresh")

\* The refresh cycle after a visibility regain at the address of the load,
\* over a tree that holds turns.
C26_Witness ==
    /\ hist.refreshCause = "visible"
    /\ cycleBy = "refresh"
    /\ phase = "ingested"
    /\ dom # <<>>
    /\ location.page = 1

Failing(d) == { k \in 1..Len(d) : extractTextContent(d[k]) = Throws }

RECURSIVE Readable(_)
Readable(d) ==
    IF d = <<>> THEN <<>>
    ELSE IF extractTextContent(Head(d)) = Throws THEN Readable(Tail(d))
    ELSE <<Head(d)>> \o Readable(Tail(d))

\* C27: when the ingestion of a cycle meets elements whose text extraction
\* throws, those elements get no identity and no record, the store becomes
\* what ingesting the other elements alone, in tree order, makes of it, and
\* the cycle goes on: it is then at revalidation, and when it ends the list
\* has one entry for each record and each other element with a text has a
\* record.
C27_ThrowIsSkipped ==
    [][/\ (Failing(dom) # {} /\ phase = "idle" /\ phase' = "ingested") =>
             /\ sessionQueries'
                  = Ingest(Readable(dom), sessionQueries, nextId).sq
             /\ Readable(dom')
                  = Ingest(Readable(dom), sessionQueries, nextId).dom
             /\ \A k \in Failing(dom) : dom'[k] = dom[k]
       /\ (Failing(dom) # {} /\ phase = "validated" /\ phase' = "idle") =>
             /\ Len(allNavItems') = Len(sessionQueries')
             /\ \A k \in 1..Len(dom') :
                   (k \notin Failing(dom')
                      /\ Trim(extractTextContent(dom'[k])) # <<>>) =>
                   \E j \in 1..Len(sessionQueries') :
                       sessionQueries'[j].text
                         = Trim(extractTextContent(dom'[k]))]_vars

\* A cycle has ended over a tree whose second element cannot be read and
\* whose first and third elements have records, in that order.
C27_Witness ==
    /\ phase = "idle"
    /\ Len(dom) = 3
    /\ Failing(dom) = {2}
    /\ Len(sessionQueries) = 2
    /\ Len(allNavItems) = 2
    /\ sessionQueries[1].elementId = dom[1].id
    /\ sessionQueries[2].elementId = dom[3].id

\* C28: once the submit listeners are installed, the locators they test an
\* event against are those of the provider in use, also after an address
\* change has resolved to another provider.
C28_ListenersFollowProvider ==
    selectors # NoProvider => selectors = currentProvider

\* C29: the ordinals of the records increase in the order of discovery, and
\* an ordinal that one record holds is not held by another record after any
\* step.
C29_OrdinalsNeverReused ==
    [][/\ \A i, j \in 1..Len(sessionQueries') :
             i < j => sessionQueries'[i].index < sessionQueries'[j].index
       /\ \A i \in 1..Len(sessionQueries), j \in 1..Len(sessionQueries') :
             sessionQueries[i].index = sessionQueries'[j].index =>
                sessionQueries[i].id = sessionQueries'[j].id]_vars

\* C30: a pending retry of adjustMainContentLayout is the first, second or
\* third of its invocation; when the third retry runs and no provider
\* selector finds a target, no retry is scheduled; a retry that schedules
\* another counts one more; no retry changes the session store or the
\* navigation list.
C30_BoundedRetries ==
    [][/\ \A k \in 1..Len(layoutTimers') :
             layoutTimers'[k].retryCount \in 1..MAX_LAYOUT_RETRIES
       /\ LayoutRetryFire =>
             /\ UNCHANGED <<sessionQueries, allNavItems>>
             /\ Head(layoutTimers).retryCount = MAX_LAYOUT_RETRIES =>
                   layoutTimers' = Tail(layoutTimers)
             /\ layoutTimers' # Tail(layoutTimers) =>
                   layoutTimers' = Append(Tail(layoutTimers),
                       [t |-> LAYOUT_RETRY_DELAY,
                        retryCount |-> Head(layoutTimers).retryCount + 1])]_vars

\* The third retry has found no target, with records in the store and
\* entries in the list.
C30_Witness ==
    /\ hist.abandoned
    /\ mainContentArea = "none"
    /\ layoutTimers = <<>>
    /\ sessionQueries # <<>>
    /\ allNavItems # <<>>

\* C31: when a cycle ends, the navigation list has as many entries as the
\* store has records, the k-th entry is made from the k-th record, and its
\* display ordinal is k.
C31_OneEntryPerRecord ==
    [][CycleEnds =>
          /\ Len(allNavItems') = Len(sessionQueries')
          /\ \A k \in 1..Len(allNavItems') :
                /\ allNavItems'[k].ordinal = k
                /\ allNavItems'[k].text = sessionQueries'[k].text]_vars

\* Two records and their two entries between cycles, the first record not
\* being the one with the first identity token of the run.
C31_Witness ==
    /\ phase = "idle"
    /\ ~isLoading
    /\ Len(sessionQueries) = 2
    /\ Len(allNavItems) = 2
    /\ allNavItems[2].ordinal = 2
    /\ sessionQueries[1].id > 1

BoundLive(d, q) ==
    LET i == getElementById(d, q.elementId)
    IN  /\ i # 0
        /\ extractTextContent(d[i]) # <<>>
        /\ Trim(extractTextContent(d[i])) = q.text

Relocated(d, q) ==
    getElementById(d, q.elementId) = 0 /\ IndexOfText(d, q.text, 1) # 0

\* C32: when a cycle ends, the element id of every record is the id of a
\* located element whose trimmed text is the record's text; and when
\* revalidation meets a record whose element is gone while another element
\* has its text, the record stays and is bound to that element.
C32_BoundToLiveElement ==
    [][/\ CycleEnds =>
             \A k \in 1..Len(sessionQueries') :
                 BoundLive(dom', sessionQueries'[k])
       /\ (phase = "ingested" /\ phase' = "validated") =>
             \A k \in 1..Len(sessionQueries) :
                 Relocated(dom, sessionQueries[k]) =>
                    \E j \in 1..Len(sessionQueries') :
                       /\ sessionQueries'[j].id = sessionQueries[k].id
                       /\ sessionQueries'[j].elementId
                            = dom[IndexOfText(dom, sessionQueries[k].text, 1)].id]_vars

\* Between cycles, a record made from an element that has since been
\* replaced by a new element with the same text: its id is the old token,
\* its element id the new one.
C32_Witness ==
    /\ phase = "idle"
    /\ \E k \in 1..Len(sessionQueries) :
          /\ sessionQueries[k].elementId # sessionQueries[k].id
          /\ BoundLive(dom, sessionQueries[k])

\* C33: when a cycle ends, every located element whose text is not blank
\* has a record with its trimmed text.
C33_EveryTurnHasRecord ==
    [][CycleEnds =>
          \A i \in 1..Len(dom') :
              Trim(extractTextContent(dom'[i])) # <<>> =>
                 \E k \in 1..Len(sessionQueries') :
                     sessionQueries'[k].text
                       = Trim(extractTextContent(dom'[i]))]_vars

\* C34: the steps of a cycle that follow its ingestion (revalidation and the
\* rebuild of the list) leave the mutation debounce timer as it is: what a
\* cycle changes in the page starts no mutation-triggered cycle.
C34_CycleStartsNoCycle ==
    [][phase # "idle" => UNCHANGED observerTimeout]_vars


C37_OnlyUserExpands ==
    [][(navBar /\ collapsed /\ ~sidebarCollapsedByFocus /\ ~collapsed')
          => ManualToggle]_vars

\* Focus mode is on, an input with a listener has the focus and the blur
\* timer has fired, and the sidebar is collapsed without the flag.
C37_Witness ==
    /\ navBar /\ focusModeEnabled
    /\ collapsed /\ ~sidebarCollapsedByFocus
    /\ activeElement \in attachedInputElements
    /\ hist.blurFired

\* C38: between callbacks the keyboard cursor is none (-1) or smaller than
\* the number of displayed entries, also after a cycle has rebuilt the list
\* with fewer entries.
C38_CursorInRange ==
    phase = "idle" =>
        \/ currentNavigationIndex = -1
        \/ currentNavigationIndex < Len(visibleNavItems(St))

\* The search filter over a list that the mutation trigger rebuilds: the
\* user filters the turns that are in the page at load, and the host page
\* goes on changing the tree (a streamed response).
InitFilter == InitAt({ a \in SameHost : a.page = 1 })

NextFilter ==
    \/ Elapse
    \/ TurnsAtLoad
    \/ HostMutate
    \/ InitTimerFire({"container"})
    \/ ObserverFire
    \/ RefreshFire
    \/ CycleValidate
    \/ CycleRebuild
    \/ UserToggles
    \/ UserFocuses
    \/ UserTypes
    \/ SearchFire

SpecFilter == InitFilter /\ [][NextFilter]_vars

\* The term of the search field, as handleSearch passes it to the filter.
FieldTerm == Trim(ToLowerCase(searchValue))

\* C39: while the search field holds a non-empty term whose filter has been
\* applied, every entry that does not match the term is hidden, also after
\* a cycle has rebuilt the list.
C39_FilterPersists ==
    (phase = "idle" /\ searchTimeout = NoTimer /\ FieldTerm # <<>>) =>
        \A k \in 1..Len(allNavItems) :
            allNavItems[k].display =>
                \/ Includes(ToLowerCase(NavSummary(allNavItems[k])), FieldTerm)
                \/ Includes(ToLowerCase(allNavItems[k].fullText), FieldTerm)

\* Refreshes that overlap: the refresh button, address changes on one host
\* and the page becoming visible again, while the host page changes the
\* tree and the user expands and collapses the sidebar.
InitComplete == InitAt({ a \in SameHost : a.page = 1 })

NextComplete ==
    \/ Elapse
    \/ HostMutate
    \/ ManualToggle
    \/ RefreshClick
    \/ ReenableFire
    \/ PopState(SameHost, MaxPending)
    \/ VisibilityRegain(MaxPending)
    \/ VisTimerFire
    \/ InitTimerFire({"container"})
    \/ ObserverFire
    \/ RefreshFire
    \/ CycleValidate
    \/ CycleRebuild

SpecComplete == InitComplete /\ [][NextComplete]_vars

\* The scheduling the browser guarantees: a callback that has started runs
\* to its end, a due timer's callback runs, and time passes while timers
\* are pending. The host page and the user are under no obligation.
SpecCompleteFair ==
    /\ SpecComplete
    /\ []<>~(phase = "ingested")
    /\ []<>~(phase = "validated")
    /\ []<>~(phase = "idle" /\ AnyDue(St))
    /\ []<>~(phase = "idle" /\ ~AnyDue(St) /\ Pending(St) # {})

\* C40: every refresh completes: the loading state that refreshData sets is
\* cleared, by the end of a cycle that a refresh timer started, and the
\* refresh button that a click disabled is enabled again.
C40_RefreshCompletes ==
    /\ isLoading ~> ~isLoading
    /\ refreshBtnDisabled ~> ~refreshBtnDisabled
    /\ [][(isLoading /\ ~isLoading') => (cycleBy = "refresh" /\ CycleEnds)]_vars

\* Two refreshes are pending at once, one of them from the refresh button.
C40_Witness ==
    /\ isLoading /\ refreshBtnDisabled
    /\ Len(refreshTimers) = 2

====
